---- MODULE Spec2Model ----
(***************************************************************************)
(* Model of zalgonoise/logx: the Multi handler composite (package          *)
(* handlers) and the generic attribute (package attr).                     *)
(*                                                                         *)
(* Handlers are values; a multiHandler holds a Go slice, modelled as the   *)
(* address of a backing array in `heap` (address 0 is the nil slice).      *)
(***************************************************************************)
EXTENDS Integers, Sequences, FiniteSets

VARIABLES heap, pool, last, nops, panicked, cur, out

hvars == <<heap, pool, last, nops, panicked>>
avars == <<cur, out>>
vars == <<heap, pool, last, nops, panicked, cur, out>>

(* ---------------------------- bounds ----------------------------------- *)
MaxArgs == 2
MaxOps == 3
MaxChildren == 3
MaxLevel == 1
MaxDepth == 3

LeafIds == {"A", "B"}
Levels == 0..MaxLevel
Records == {"r1", "r2"}
\* With(attrs...): how many attributes are passed; WithReplaceFn(fn): which fn
AttrCounts == {1}
ReplaceFns == {1}
\* WithSource(addSource): false and true
SourceFlags == {0, 1}

(* ---------------------------- handler values --------------------------- *)
NilH == [kind |-> "nil"]
Unimpl == [kind |-> "unimpl"]
Leaf(id, lvl, cfg) == [kind |-> "leaf", id |-> id, lvl |-> lvl, cfg |-> cfg]
multiHandler(a) == [kind |-> "multi", arr |-> a]

IsMulti(h) == h.kind = "multi"

\* the contents of the slice whose backing array is at address a
Slice(hp, a) == IF a = 0 THEN <<>> ELSE hp[a]

\* mh.handlers: the contents of the slice a composite holds
Handlers(hp, mh) == Slice(hp, mh.arr)

BaseHandlers == {NilH, Unimpl} \cup {Leaf(id, 0, <<>>) : id \in LeafIds}

(* ---------------------------- errors ----------------------------------- *)
NoErr == [kind |-> "none"]
LeafErr(id) == [kind |-> "leaf", msg |-> <<id>>]

\* err.Error()
ErrMsg(e) == IF e.kind = "none" THEN <<>> ELSE e.msg

\* Errorf with its operands swapped: the earlier failures read first
ErrorfOldestFirst(handlerErr, err) ==
    [kind |-> "wrap",
     msg |-> ErrMsg(err) \o <<"--">> \o ErrMsg(handlerErr),
     unwrap |-> err]

\* fmt.Errorf("%v -- %w", handlerErr, err): the text of handlerErr, the
\* separator, the text of err; only err (the %w operand) is wrapped.
Errorf(handlerErr, err) ==
    [kind |-> "wrap",
     msg |-> ErrMsg(handlerErr) \o <<"--">> \o ErrMsg(err),
     unwrap |-> err]

RECURSIVE UnwrapChain(_)
\* every error errors.Unwrap reaches from e, e included
UnwrapChain(e) ==
    IF e.kind = "wrap" THEN {e} \cup UnwrapChain(e.unwrap) ELSE {e}

(* ---------------------------- Multi ------------------------------------ *)
RECURSIVE MultiAppendNested(_, _)
\* MultiAppend without the multiHandler case: a composite is appended whole
MultiAppendNested(hp, h) ==
    IF Len(h) = 0 THEN <<>>
    ELSE LET handler == Head(h)
             rest == MultiAppendNested(hp, Tail(h))
         IN  IF handler.kind = "nil" THEN rest ELSE <<handler>> \o rest

RECURSIVE MultiAppend(_, _)
\* the loop of Multi's default case: nil handlers are skipped, a multiHandler
\* contributes its handlers, anything else is appended
MultiAppend(hp, h) ==
    IF Len(h) = 0 THEN <<>>
    ELSE LET handler == Head(h)
             rest == MultiAppend(hp, Tail(h))
         IN  CASE handler.kind = "nil" -> rest
               [] handler.kind = "multi" -> Handlers(hp, handler) \o rest
               [] OTHER -> <<handler>> \o rest

\* Multi(h ...Handler): the result and the heap after the call
Multi(hp, h) ==
    CASE Len(h) = 0 -> [res |-> NilH, heap |-> hp]
      [] Len(h) = 1 -> [res |-> h[1], heap |-> hp]
      [] OTHER ->
           LET handlers == MultiAppend(hp, h)
           IN  IF Len(handlers) = 0
               THEN [res |-> multiHandler(0), heap |-> hp]
               ELSE [res |-> multiHandler(Len(hp) + 1),
                     heap |-> Append(hp, handlers)]

(* ---------------------------- leaf handlers -------------------------- *)
\* A concrete handler behind the Handler interface: it accepts a level at or
\* above its threshold, and every With* returns a copy that remembers the call.
LeafEnabled(h, level) == level >= h.lvl

LeafHandle(h, failing) == IF h.id \in failing THEN LeafErr(h.id) ELSE NoErr

LeafWith(h, op) ==
    [h EXCEPT !.cfg = Append(@, op),
              !.lvl = IF op.name = "WithLevel" THEN op.arg ELSE @]

(* ---------------------------- unimplemented ---------------------------- *)
UnimplEnabled(level) == FALSE
UnimplHandle(r) == NoErr
UnimplWith(u, op) == u

(* ---------------------------- multiHandler.Enabled --------------------- *)
RECURSIVE HEnabled(_, _, _)
RECURSIVE EnabledLoop(_, _, _)

\* EnabledLoop answering at the first handler, whatever it says
EnabledLoopFirst(hp, hs, level) ==
    IF Len(hs) = 0 THEN [ok |-> TRUE, panic |-> FALSE]
    ELSE HEnabled(hp, Head(hs), level)

\* for _, h := range mh.handlers: the first handler filtering the level
\* returns false; calling a method of a nil Handler panics
EnabledLoop(hp, hs, level) ==
    IF Len(hs) = 0 THEN [ok |-> TRUE, panic |-> FALSE]
    ELSE LET c == HEnabled(hp, Head(hs), level)
         IN  IF c.panic \/ ~c.ok THEN c
             ELSE EnabledLoop(hp, Tail(hs), level)

Enabled(hp, mh, level) == EnabledLoop(hp, Handlers(hp, mh), level)

\* h.Enabled(level), dispatched on the dynamic type of h
HEnabled(hp, h, level) ==
    CASE h.kind = "leaf" -> [ok |-> LeafEnabled(h, level), panic |-> FALSE]
      [] h.kind = "unimpl" -> [ok |-> UnimplEnabled(level), panic |-> FALSE]
      [] h.kind = "multi" -> Enabled(hp, h, level)
      [] OTHER -> [ok |-> FALSE, panic |-> TRUE]

(* ---------------------------- multiHandler.Handle ---------------------- *)
RECURSIVE HHandle(_, _, _, _)
RECURSIVE HandleLoop(_, _, _, _, _, _)

RECURSIVE HandleLoopStop(_, _, _, _, _, _)
\* HandleLoop returning at the first handler that fails
HandleLoopStop(hp, hs, r, failing, err, calls) ==
    IF Len(hs) = 0 THEN [err |-> err, calls |-> calls, panic |-> FALSE]
    ELSE LET c == HHandle(hp, Head(hs), r, failing)
         IN  IF c.panic \/ c.err # NoErr
             THEN [err |-> c.err, calls |-> calls \o c.calls, panic |-> c.panic]
             ELSE HandleLoopStop(hp, Tail(hs), r, failing, err, calls \o c.calls)

\* for _, h := range mh.handlers: every handler is called; the first error is
\* kept as it is, each later one is combined with what was kept so far
HandleLoop(hp, hs, r, failing, err, calls) ==
    IF Len(hs) = 0 THEN [err |-> err, calls |-> calls, panic |-> FALSE]
    ELSE LET c == HHandle(hp, Head(hs), r, failing)
             handlerErr == c.err
             newErr == IF handlerErr # NoErr
                       THEN IF err = NoErr THEN handlerErr
                            ELSE Errorf(handlerErr, err)
                       ELSE err
         IN  IF c.panic
             THEN [err |-> err, calls |-> calls \o c.calls, panic |-> TRUE]
             ELSE HandleLoop(hp, Tail(hs), r, failing, newErr, calls \o c.calls)

Handle(hp, mh, r, failing) ==
    HandleLoop(hp, Handlers(hp, mh), r, failing, NoErr, <<>>)

\* h.Handle(r), dispatched on the dynamic type of h; `calls` lists the
\* concrete handlers whose Handle ran, with the record each was given
HHandle(hp, h, r, failing) ==
    CASE h.kind = "leaf" ->
           [err |-> LeafHandle(h, failing), calls |-> <<[h |-> h, r |-> r]>>,
            panic |-> FALSE]
      [] h.kind = "unimpl" ->
           [err |-> UnimplHandle(r), calls |-> <<[h |-> h, r |-> r]>>,
            panic |-> FALSE]
      [] h.kind = "multi" -> Handle(hp, h, r, failing)
      [] OTHER -> [err |-> NoErr, calls |-> <<>>, panic |-> TRUE]

(* ---------------------------- multiHandler.With* ----------------------- *)
RECURSIVE HWith(_, _, _)
RECURSIVE WithLoop(_, _, _, _, _)
RECURSIVE Reconfigure(_, _, _)

RECURSIVE Zeroed(_)
\* a fresh array of n Handler zero values (nil)
Zeroed(n) == IF n = 0 THEN <<>> ELSE Append(Zeroed(n - 1), NilH)

\* newHandlers := mh.handlers: no new array, the composite's own is written
MakeHandlersAlias(hp, mh) == [heap |-> hp, addr |-> mh.arr]

\* newHandlers := make([]Handler, len(mh.handlers), len(mh.handlers))
MakeHandlers(hp, mh) ==
    [heap |-> Append(hp, Zeroed(Len(Handlers(hp, mh)))),
     addr |-> Len(hp) + 1]

\* for idx, h := range mh.handlers { newHandlers[idx] = h.With*(...) }
\* hs is the slice the range statement evaluated once, a the address of
\* newHandlers
WithLoop(hp, hs, a, idx, op) ==
    IF idx > hs.len THEN [heap |-> hp, panic |-> FALSE]
    ELSE LET c == HWith(hp, hp[hs.arr][idx], op)
         IN  IF c.panic THEN [heap |-> c.heap, panic |-> TRUE]
             ELSE WithLoop([c.heap EXCEPT ![a][idx] = c.res], hs, a, idx + 1, op)

\* the body the four With* methods share: op names the method and its argument
Reconfigure(hp, mh, op) ==
    LET mk == MakeHandlers(hp, mh)
        lp == WithLoop(mk.heap, [arr |-> mh.arr, len |-> Len(Handlers(hp, mh))],
                       mk.addr, 1, op)
    IN  IF lp.panic THEN [res |-> NilH, heap |-> lp.heap, panic |-> TRUE]
        ELSE LET m == Multi(lp.heap, Slice(lp.heap, mk.addr))
             IN  [res |-> m.res, heap |-> m.heap, panic |-> FALSE]

With(hp, mh, attrs) == Reconfigure(hp, mh, [name |-> "With", arg |-> attrs])
WithSource(hp, mh, addSource) ==
    Reconfigure(hp, mh, [name |-> "WithSource", arg |-> addSource])
WithLevel(hp, mh, level) ==
    Reconfigure(hp, mh, [name |-> "WithLevel", arg |-> level])
WithReplaceFn(hp, mh, fn) ==
    Reconfigure(hp, mh, [name |-> "WithReplaceFn", arg |-> fn])

\* h.With*(...), dispatched on the dynamic type of h
HWith(hp, h, op) ==
    CASE h.kind = "leaf" -> [res |-> LeafWith(h, op), heap |-> hp, panic |-> FALSE]
      [] h.kind = "unimpl" -> [res |-> UnimplWith(h, op), heap |-> hp, panic |-> FALSE]
      [] h.kind = "multi" -> Reconfigure(hp, h, op)
      [] OTHER -> [res |-> NilH, heap |-> hp, panic |-> TRUE]

(* ---------------------------- attr: types and values ------------------- *)
\* A value held in an `any`: its dynamic type and its payload; NilV is the nil
\* interface. A pointer carries the value it points to, or nothing when nil.
NilV == [dyn |-> "nil"]
IntV(n) == [dyn |-> "int", val |-> n]
StrV(x) == [dyn |-> "string", val |-> x]
PtrV(T, v) == [dyn |-> "*" \o T, val |-> v]
AttrV(a) == [dyn |-> a.flavor, val |-> a]
AttrsV(as) == [dyn |-> "[]Attr", val |-> as]

\* the absent Attr (a nil interface)
NilAttr == [flavor |-> "nil"]

\* the dynamic types of the two implementations of Attr
AttrImpls == {"attr", "*ptrAttr"}
InterfaceTypes == {"any", "Attr"}
ConcreteTypes == {"int", "string", "[]Attr", "*int", "*string"}

\* whether a value of dynamic type dyn satisfies the interface type T
Implements(dyn, T) == T = "any" \/ (T = "Attr" /\ dyn \in AttrImpls)

\* TypeAssert taking any value for an interface type
TypeAssertLoose(value, T) == value.dyn = T \/ T \in InterfaceTypes

\* the ok of `v, ok := (value).(T)` for a non-nil value: the dynamic type is T
\* itself, or implements T when T is an interface type
TypeAssert(value, T) ==
    IF T \in InterfaceTypes THEN Implements(value.dyn, T) ELSE value.dyn = T

(* ---------------------------- attr[T] and ptrAttr[T] ------------------- *)
\* New[T](key, value)
New(T, key, value) ==
    IF key = "" THEN NilAttr
    ELSE [flavor |-> "attr", T |-> T, key |-> key, value |-> value]

\* Ptr[T](key, value): value is a *T
Ptr(T, key, value) ==
    IF key = "" THEN NilAttr
    ELSE [flavor |-> "*ptrAttr", T |-> T, key |-> key, value |-> value]

Key(a) == a.key

\* a.Value(): the stored value; for a ptrAttr nil when the pointer is nil,
\* else what it points to
Value(a) ==
    IF a.flavor = "*ptrAttr"
    THEN IF a.value.val = NilV THEN NilV ELSE a.value.val
    ELSE a.value

WithKey(a, key) ==
    IF a.flavor = "*ptrAttr" THEN Ptr(a.T, key, a.value)
    ELSE IF key = "" THEN NilAttr ELSE New(a.T, key, a.value)

\* attr[T].WithValue asserts value.(T), ptrAttr[T].WithValue asserts value.(*T)
WithValue(a, value) ==
    IF value = NilV THEN NilAttr
    ELSE IF a.flavor = "*ptrAttr"
         THEN IF ~TypeAssert(value, "*" \o a.T) THEN NilAttr
              ELSE Ptr(a.T, a.key, value)
         ELSE IF ~TypeAssert(value, a.T) THEN NilAttr
              ELSE New(a.T, a.key, value)

(* ---------------------------- attr: serialization ---------------------- *)
\* A map[string]any is a set of entries with distinct keys; JSON output is a
\* tree: null, a scalar, an array, or an object holding such a map.
MapPut(kv, k, v) == {e \in kv : e.k # k} \cup {[k |-> k, v |-> v]}

RECURSIVE mapAttrs(_)
\* the []Attr case recurses; the Attr case stores v.Value(), the nested
\* attribute's value without its key
mapAttrs(attrs) ==
    IF Len(attrs) = 0 THEN {}
    ELSE LET a == attrs[Len(attrs)]
             kv == mapAttrs(SubSeq(attrs, 1, Len(attrs) - 1))
         IN  IF a = NilAttr THEN kv
             ELSE LET v == Value(a)
                  IN  CASE v.dyn = "[]Attr" ->
                             MapPut(kv, Key(a), [dyn |-> "map", val |-> mapAttrs(v.val)])
                        [] v.dyn \in AttrImpls ->
                             MapPut(kv, Key(a), Value(v.val))
                        [] OTHER -> MapPut(kv, Key(a), v)

\* the map attr[T].MarshalJSON and ptrAttr[T].MarshalJSON hand to json.Marshal
MarshalMap(a) ==
    IF a.flavor = "*ptrAttr" THEN {[k |-> Key(a), v |-> Value(a)]}
    ELSE LET v == Value(a)
         IN  CASE v.dyn = "[]Attr" ->
                    {[k |-> Key(a), v |-> [dyn |-> "map", val |-> mapAttrs(v.val)]]}
               [] v.dyn \in AttrImpls ->
                    {[k |-> Key(a), v |-> [dyn |-> "map", val |-> mapAttrs(<<v.val>>)]]}
               [] OTHER -> {[k |-> Key(a), v |-> Value(a)]}

RECURSIVE jsonMarshal(_)
\* json.Marshal of a value: a map becomes an object, a slice an array, a value
\* with a MarshalJSON method what that method returns, a pointer what it
\* points to, nil null
jsonMarshal(v) ==
    CASE v.dyn = "nil" -> [j |-> "null"]
      [] v.dyn = "map" ->
           [j |-> "object",
            m |-> {[k |-> e.k, v |-> jsonMarshal(e.v)] : e \in v.val}]
      [] v.dyn = "[]Attr" ->
           [j |-> "array",
            elems |-> [i \in 1..Len(v.val) |->
                          IF v.val[i] = NilAttr THEN [j |-> "null"]
                          ELSE jsonMarshal(AttrV(v.val[i]))]]
      [] v.dyn \in AttrImpls ->
           jsonMarshal([dyn |-> "map", val |-> MarshalMap(v.val)])
      [] v.dyn \in {"*int", "*string"} -> jsonMarshal(v.val)
      [] OTHER -> [j |-> "scalar", val |-> v.val]

MarshalJSON(a) == jsonMarshal([dyn |-> "map", val |-> MarshalMap(a)])

(* ---------------------------- state machine ---------------------------- *)
NoCall ==
    [op |-> "none", recv |-> NilH, args |-> <<>>, level |-> 0, rec |-> "r1",
     failing |-> {}, res |-> NilH, ok |-> FALSE, calls |-> <<>>, err |-> NoErr,
     before |-> <<>>]

\* the last call on an attribute: the receiver, the arguments, what came back
NoOut ==
    [op |-> "none", recv |-> NilAttr, key |-> "", arg |-> NilV,
     res |-> NilAttr, json |-> [j |-> "null"]]

Init ==
    /\ heap = <<>>
    /\ pool = BaseHandlers
    /\ last = NoCall
    /\ nops = 0
    /\ panicked = FALSE
    /\ cur = NilAttr
    /\ out = NoOut

ArgLists == UNION {[1..n -> pool] : n \in 0..MaxArgs}

CallMulti(h) ==
    /\ ~panicked
    /\ nops < MaxOps
    /\ LET m == Multi(heap, h)
       IN  /\ heap' = m.heap
           /\ pool' = pool \cup {m.res}
           /\ last' = [NoCall EXCEPT !.op = "Multi", !.args = h, !.res = m.res]
    /\ nops' = nops + 1
    /\ UNCHANGED <<panicked, avars>>

CallEnabled(mh, level) ==
    /\ ~panicked
    /\ IsMulti(mh)
    /\ LET e == Enabled(heap, mh, level)
       IN  /\ panicked' = e.panic
           /\ last' = [NoCall EXCEPT !.op = "Enabled", !.recv = mh,
                                     !.level = level, !.ok = e.ok,
                                     !.before = Handlers(heap, mh)]
    /\ UNCHANGED <<heap, pool, nops, avars>>

CallHandle(mh, r, failing) ==
    /\ ~panicked
    /\ IsMulti(mh)
    /\ LET e == Handle(heap, mh, r, failing)
       IN  /\ panicked' = e.panic
           /\ last' = [NoCall EXCEPT !.op = "Handle", !.recv = mh, !.rec = r,
                                     !.failing = failing, !.err = e.err,
                                     !.calls = e.calls,
                                     !.before = Handlers(heap, mh)]
    /\ UNCHANGED <<heap, pool, nops, avars>>

\* what a With* call leaves behind: the heap it wrote, the handler it returned
Reconfigured(mh, name, arg, w) ==
    /\ ~panicked
    /\ nops < MaxOps
    /\ heap' = w.heap
    /\ panicked' = w.panic
    /\ pool' = IF w.panic THEN pool ELSE pool \cup {w.res}
    /\ last' = [NoCall EXCEPT !.op = name, !.recv = mh, !.level = arg,
                              !.res = w.res, !.before = Handlers(heap, mh)]
    /\ nops' = nops + 1
    /\ UNCHANGED avars

CallWith(mh, attrs) ==
    IsMulti(mh) /\ Reconfigured(mh, "With", attrs, With(heap, mh, attrs))

CallWithSource(mh, addSource) ==
    IsMulti(mh)
    /\ Reconfigured(mh, "WithSource", addSource, WithSource(heap, mh, addSource))

CallWithLevel(mh, level) ==
    IsMulti(mh) /\ Reconfigured(mh, "WithLevel", level, WithLevel(heap, mh, level))

CallWithReplaceFn(mh, fn) ==
    IsMulti(mh)
    /\ Reconfigured(mh, "WithReplaceFn", fn, WithReplaceFn(heap, mh, fn))

(* ---------------------------- attr: calls ------------------------------ *)
Keys == {"", "a", "b", "c"}
Scalars == {IntV(1), StrV("s")}
Pointers == {PtrV("int", NilV), PtrV("int", IntV(1)), PtrV("string", StrV("s"))}
PtrTypes == {"int", "string"}

RECURSIVE Depth(_)
\* how many attributes are nested in a, a included (the deepest path)
Depth(a) ==
    IF a = NilAttr THEN 0
    ELSE LET v == Value(a)
         IN  CASE v.dyn \in AttrImpls -> 1 + Depth(v.val)
               [] v.dyn = "[]Attr" ->
                    LET ds == {Depth(v.val[i]) : i \in 1..Len(v.val)} \cup {0}
                    IN  1 + CHOOSE d \in ds : \A e \in ds : e <= d
               [] OTHER -> 1

\* the values New can be given next: scalars, nil, the current attribute, or a
\* sequence holding it
Nested ==
    IF cur = NilAttr \/ Depth(cur) >= MaxDepth THEN {}
    ELSE {AttrV(cur), AttrsV(<<NilAttr, cur>>)}

\* the type arguments New is called with for a value: its own type or, for a
\* scalar, any; a nil value needs an interface type
StaticTypes(value) ==
    CASE value = NilV -> InterfaceTypes
      [] value.dyn \in AttrImpls -> {"Attr"}
      [] value.dyn = "[]Attr" -> {"[]Attr"}
      [] OTHER -> {value.dyn, "any"}

CallNew(T, key, value) ==
    /\ T \in StaticTypes(value)
    /\ cur' = New(T, key, value)
    /\ out' = [NoOut EXCEPT !.op = "New", !.key = key, !.arg = value,
                            !.res = cur']
    /\ UNCHANGED hvars

CallPtr(T, key, value) ==
    /\ value.dyn = "*" \o T
    /\ cur' = Ptr(T, key, value)
    /\ out' = [NoOut EXCEPT !.op = "Ptr", !.key = key, !.arg = value,
                            !.res = cur']
    /\ UNCHANGED hvars

CallWithKey(key) ==
    /\ cur # NilAttr
    /\ cur' = WithKey(cur, key)
    /\ out' = [NoOut EXCEPT !.op = "WithKey", !.recv = cur, !.key = key,
                            !.res = cur']
    /\ UNCHANGED hvars

CallWithValue(value) ==
    /\ cur # NilAttr
    /\ out' = [NoOut EXCEPT !.op = "WithValue", !.recv = cur, !.arg = value,
                            !.res = WithValue(cur, value)]
    /\ UNCHANGED <<cur, hvars>>

CallMarshalJSON ==
    /\ cur # NilAttr
    /\ out' = [NoOut EXCEPT !.op = "MarshalJSON", !.recv = cur,
                            !.json = MarshalJSON(cur)]
    /\ UNCHANGED <<cur, hvars>>

WithValueArgs ==
    Scalars \cup Pointers \cup {NilV, AttrsV(<<>>)}
        \cup {AttrV(New("int", "k", IntV(1))),
              AttrV(Ptr("int", "k", PtrV("int", NilV)))}

AttrNext ==
    \/ \E T \in ConcreteTypes \cup InterfaceTypes, key \in Keys,
          value \in Scalars \cup {NilV} \cup Nested : CallNew(T, key, value)
    \/ \E T \in PtrTypes, key \in Keys, value \in Pointers :
          CallPtr(T, key, value)
    \/ \E key \in Keys : CallWithKey(key)
    \/ \E value \in WithValueArgs : CallWithValue(value)
    \/ CallMarshalJSON

SpecAttr == Init /\ [][AttrNext]_vars

Next ==
    \/ \E h \in ArgLists : CallMulti(h)
    \/ \E mh \in pool, attrs \in AttrCounts : CallWith(mh, attrs)
    \/ \E mh \in pool, addSource \in SourceFlags : CallWithSource(mh, addSource)
    \/ \E mh \in pool, level \in Levels : CallWithLevel(mh, level)
    \/ \E mh \in pool, fn \in ReplaceFns : CallWithReplaceFn(mh, fn)

Spec == Init /\ [][Next]_vars

(* ---------------------------- calls on a built composite --------------- *)
\* the concrete handlers a composite is built from, each with its threshold
LeafHandlers == {Unimpl} \cup {Leaf(id, l, <<>>) : id \in LeafIds, l \in Levels}

ChildLists == UNION {[1..n -> LeafHandlers] : n \in 0..MaxChildren}

\* the state after the one call Multi(nil, hs...), which builds the composite
\* of the handlers hs
InitCalls ==
    \E hs \in ChildLists :
        LET m == Multi(<<>>, <<NilH>> \o hs)
        IN  /\ heap = m.heap
            /\ pool = {m.res}
            /\ last = [NoCall EXCEPT !.op = "Multi", !.args = <<NilH>> \o hs,
                                     !.res = m.res]
            /\ nops = 1
            /\ panicked = FALSE
            /\ cur = NilAttr
            /\ out = NoOut

NextCalls ==
    \/ \E mh \in pool, level \in Levels : CallEnabled(mh, level)
    \/ \E mh \in pool, r \in Records, failing \in SUBSET LeafIds :
          CallHandle(mh, r, failing)

SpecCalls == InitCalls /\ [][NextCalls]_vars

(* ---------------------------- claims: Multi ---------------------------- *)
WithOps == {"With", "WithSource", "WithLevel", "WithReplaceFn"}

\* the argument of the With* call recorded in `last`, as the op a child sees
LastOp == [name |-> last.op, arg |-> last.level]

\* C1: every Multi composite reachable through Multi(...) and With* calls has
\* a handler list with no Multi composite and no absent (nil) handler in it.
C1_Flattened ==
    \A h \in pool :
        IsMulti(h) =>
            \A i \in 1..Len(Handlers(heap, h)) :
                Handlers(heap, h)[i].kind \notin {"nil", "multi"}

\* Multi was given a composite of two handlers next to another handler
C1_Witness ==
    /\ last.op = "Multi"
    /\ IsMulti(last.res)
    /\ Len(Handlers(heap, last.res)) >= 3
    /\ \E i \in 1..Len(last.args) :
          IsMulti(last.args[i]) /\ Len(Handlers(heap, last.args[i])) >= 2

\* C2: Multi.Handle(record) calls Handle of every child exactly once, with
\* that record, in the order of the handler list, whatever the earlier
\* children returned.
C2_HandleAll ==
    last.op = "Handle" =>
        last.calls = [i \in 1..Len(last.before) |->
                         [h |-> last.before[i], r |-> last.rec]]

\* the first of several children failed, and a later one was still called
C2_Witness ==
    /\ last.op = "Handle"
    /\ Len(last.before) >= 3
    /\ last.before[1].kind = "leaf"
    /\ last.before[1].id \in last.failing
    /\ last.calls[3] = [h |-> last.before[3], r |-> last.rec]

\* the error the child h returns in the call recorded in `last`
ChildErr(h) ==
    IF h.kind = "leaf" /\ h.id \in last.failing THEN LeafErr(h.id) ELSE NoErr

\* the errors of the children that failed, in the order they were met
ChildErrs == SelectSeq([i \in 1..Len(last.before) |-> ChildErr(last.before[i])],
                       LAMBDA e : e # NoErr)

RECURSIVE NewestFirst(_)
\* the messages of errs, the last one first, separated by "--"
NewestFirst(errs) ==
    IF Len(errs) = 1 THEN ErrMsg(errs[1])
    ELSE ErrMsg(errs[Len(errs)]) \o <<"--">>
            \o NewestFirst(SubSeq(errs, 1, Len(errs) - 1))

\* C3: Multi.Handle returns no error when no child failed, the child's own
\* error when exactly one failed, and for k >= 2 failures one combined error
\* whose message holds the k messages from the most recent to the first.
C3_HandleError ==
    last.op = "Handle" =>
        CASE Len(ChildErrs) = 0 -> last.err = NoErr
          [] Len(ChildErrs) = 1 -> last.err = ChildErrs[1]
          [] OTHER -> /\ last.err.kind = "wrap"
                      /\ ErrMsg(last.err) = NewestFirst(ChildErrs)

\* three children failed, not all with the same message
C3_Witness ==
    /\ last.op = "Handle"
    /\ Len(ChildErrs) >= 3
    /\ ChildErrs[1] # ChildErrs[2]
    /\ last.err.kind = "wrap"

\* C4: when two or more children fail, every child error, the most recent
\* one included, is reached from the returned error by unwrapping.
C4_AllUnwrap ==
    (last.op = "Handle" /\ Len(ChildErrs) >= 2) =>
        \A i \in 1..Len(ChildErrs) : ChildErrs[i] \in UnwrapChain(last.err)

\* the arguments of the recorded Multi call that are not absent
Present == {i \in 1..Len(last.args) : last.args[i] # NilH}

\* C5: Multi called with exactly one non-absent handler, alone or next to
\* absent ones, returns that handler itself.
C5_SingleIsIdentity ==
    (last.op = "Multi" /\ Cardinality(Present) = 1) =>
        \A i \in Present : last.res = last.args[i]

C7_OriginalUnchanged ==
    [][\A h \in pool : IsMulti(h) => Handlers(heap', h) = Handlers(heap, h)]_vars

\* a With* call on a composite that an earlier With* call returned
C7_Witness ==
    /\ last.op \in WithOps
    /\ Len(last.before) >= 2
    /\ last.before[1].kind = "leaf"
    /\ Len(last.before[1].cfg) >= 1
    /\ IsMulti(last.res)
    /\ Handlers(heap, last.recv) = last.before

\* C8: every With* call on a composite returns a Multi composite whose
\* children are the children of the original, each reconfigured by the same
\* call, in order.
C8_WithReturnsMulti ==
    last.op \in WithOps =>
        /\ IsMulti(last.res)
        /\ Handlers(heap, last.res) =
              [i \in 1..Len(last.before) |->
                  HWith(heap, last.before[i], LastOp).res]

(* ---------------------------- claims: attr ----------------------------- *)
\* the type an attribute compares a replacement with: T for attr[T], *T for
\* ptrAttr[T]
ValueType(a) == IF a.flavor = "*ptrAttr" THEN "*" \o a.T ELSE a.T

\* the result of the recorded WithValue call is an attribute with the
\* receiver's key and the replacement as its value
CarriesReplacement ==
    out.res # NilAttr =>
        /\ Key(out.res) = Key(out.recv)
        /\ out.res.value = out.arg
        /\ out.res.flavor = out.recv.flavor

RECURSIVE AttrKeys(_)
\* the keys of a and of every attribute nested in it, directly or in a sequence
AttrKeys(a) ==
    IF a = NilAttr THEN {}
    ELSE LET v == Value(a)
         IN  {Key(a)} \cup
             CASE v.dyn \in AttrImpls -> AttrKeys(v.val)
               [] v.dyn = "[]Attr" ->
                    UNION {AttrKeys(v.val[i]) : i \in 1..Len(v.val)}
               [] OTHER -> {}

RECURSIVE JSONKeys(_)
\* the keys of every object in the JSON tree j
JSONKeys(j) ==
    CASE j.j = "object" ->
           {e.k : e \in j.m} \cup UNION {JSONKeys(e.v) : e \in j.m}
      [] j.j = "array" -> UNION {JSONKeys(j.elems[i]) : i \in 1..Len(j.elems)}
      [] OTHER -> {}

\* C10: serializing an attribute keeps, at every depth of nesting, an entry
\* under the key of each nested attribute: no nested key is missing from the
\* output.
C10_NoKeyDropped ==
    out.op = "MarshalJSON" => AttrKeys(out.recv) \subseteq JSONKeys(out.json)
====
